---- MODULE Spec2Model ----
(***************************************************************************)
(* Model of qualifier.py: valid_input (the validator) and rearrange_tiles  *)
(* (open, validate, crop the tiles row-major, allocate the canvas, paste    *)
(* tiles[ordering[i]] at every grid position, save).  Images are modelled   *)
(* as pixel grids; the image library's crop/new/paste are modelled by what   *)
(* they do to pixels.  Python's floor division, modulo and negative list     *)
(* indexing are modelled as Python computes them.                            *)
(***************************************************************************)
EXTENDS Integers, Sequences, FiniteSets, TLC

\* ---------------------------------------------------------------- bounds
MaxW == 4        \* largest image width of a rearranged image
MaxH == 2        \* largest image height of a rearranged image
MaxTile == 2     \* tile components range over -MaxTile..MaxTile
MaxLen == 4      \* longest ordering

\* ------------------------------------------------------ Python arithmetic
\* a // b for b # 0 (floor division, any signs)
PyFloorDiv(a, b) == IF b > 0 THEN a \div b ELSE (-a) \div (-b)

\* a % b for b # 0 (result has the sign of b)
PyMod(a, b) == a - b * PyFloorDiv(a, b)

\* len(set(xs))
LenSet(xs) == Cardinality({xs[j] : j \in 1..Len(xs)})

\* xs[k] is defined for -len(xs) <= k < len(xs); anything else is IndexError
PyIndexOk(xs, k) == -Len(xs) <= k /\ k < Len(xs)

\* the 1-based position Python's xs[k] reads (negative k counts from the end)
PyIndexPos(xs, k) == IF k >= 0 THEN k + 1 ELSE Len(xs) + k + 1

\* ------------------------------------------------------------- the images
Points(size) == (0..(size[1] - 1)) \X (0..(size[2] - 1))

\* no file at a path / no image object
NoImage == [mode |-> "none", size |-> <<0, 0>>, px |-> [p \in {} |-> 0]]

\* the source pictures: pixels pairwise different and never 0 (blank); the
\* pictures alternate between the two colour modes
SourceImage(size) ==
    [mode |-> IF (size[1] + size[2]) % 2 = 0 THEN "RGB" ELSE "RGBA", size |-> size,
     px |-> [p \in Points(size) |-> p[2] * size[1] + p[1] + 1]]

\* Image.new(mode, size): a canvas of colour 0
ImageNew(mode, size) ==
    [mode |-> mode, size |-> size, px |-> [p \in Points(size) |-> 0]]

\* img.crop((left, top, right, bottom)); pixels outside img read as 0
ImageCrop(im, left, top, right, bottom) ==
    [mode |-> im.mode, size |-> <<right - left, bottom - top>>,
     px |-> [p \in Points(<<right - left, bottom - top>>) |->
               IF <<left + p[1], top + p[2]>> \in DOMAIN im.px
               THEN im.px[<<left + p[1], top + p[2]>>] ELSE 0]]

\* output.paste(tile, (x0, y0)): the box of tile's size at (x0, y0) is overwritten
ImagePaste(canvas, tile, x0, y0) ==
    [canvas EXCEPT !.px =
        [p \in DOMAIN canvas.px |->
            IF <<p[1] - x0, p[2] - y0>> \in DOMAIN tile.px
            THEN tile.px[<<p[1] - x0, p[2] - y0>>] ELSE canvas.px[p]]]

\* ---------------------------------------------------------- valid_input
CanSplitNoHeight(image_size, tile_size) ==
    PyMod(image_size[1], tile_size[1]) = 0

CanSplit(image_size, tile_size) ==
    /\ PyMod(image_size[1], tile_size[1]) = 0
    /\ PyMod(image_size[2], tile_size[2]) = 0

CanOrderNoSet(ordering, tile_count) ==
    Len(ordering) = tile_count

CanOrderRangeChecked(ordering, tile_count) ==
    /\ Len(ordering) = LenSet(ordering)
    /\ Len(ordering) = tile_count
    /\ \A j \in 1..Len(ordering) : 0 <= ordering[j] /\ ordering[j] < tile_count

CanOrder(ordering, tile_count) ==
    /\ Len(ordering) = LenSet(ordering)
    /\ Len(ordering) = tile_count

\* the tile count R * C of lines 21-23 (tile components non-zero)
TileCount(image_size, tile_size) ==
    PyFloorDiv(image_size[2], tile_size[2]) * PyFloorDiv(image_size[1], tile_size[1])

ValidInputZeroGuarded(image_size, tile_size, ordering) ==
    IF tile_size[2] = 0 \/ tile_size[1] = 0
    THEN "False"
    ELSE IF CanSplit(image_size, tile_size)
            /\ CanOrder(ordering, TileCount(image_size, tile_size))
         THEN "True" ELSE "False"

\* "True" / "False", or the exception the two divisions of lines 21-22 raise
ValidInput(image_size, tile_size, ordering) ==
    IF tile_size[2] = 0 \/ tile_size[1] = 0
    THEN "ZeroDivisionError"
    ELSE IF CanSplit(image_size, tile_size)
            /\ CanOrder(ordering, TileCount(image_size, tile_size))
         THEN "True" ELSE "False"

ValidationMessage == "The tile size or ordering are not valid for the given image"

\* ------------------------------------------------------ rearrange_tiles
\* the crop box (left, top, right, bottom) of the tile at row rr, column cc
CropBox(rr, cc, tW, tH) == <<cc * tW, rr * tH, cc * tW + tW, rr * tH + tH>>

TileIndexColumnMajor(rr, cc, RR, CC) == cc * RR + rr

\* the destination index of grid position (rr, cc) in a grid of CC columns
TileIndex(rr, cc, RR, CC) == rr * CC + cc

PasteOffsetSwapped(rr, cc, tW, tH) == <<rr * tW, cc * tH>>

\* the offset the tile of grid position (rr, cc) is pasted at
PasteOffset(rr, cc, tW, tH) == <<cc * tW, rr * tH>>

\* the loop variables (r, c) of the next iteration of the two nested loops
NextCell(rr, cc, CC) == IF cc + 1 < CC THEN <<rr, cc + 1>> ELSE <<rr + 1, 0>>

\* ------------------------------------------------------------ the inputs
Paths == {"in", "a", "ab", "c", "d", "out"}

ImageSizes == (1..MaxW) \X (1..MaxH)

TileDims == (-MaxTile)..MaxTile

TileSizes == TileDims \X TileDims

\* the sizes of the validator's documented examples
ExampleImageSizes == {<<256, 256>>, <<100, 100>>}

ExampleTileSizes == {<<127, 127>>, <<128, 128>>, <<129, 129>>, <<30, 30>>,
                     <<128, 127>>, <<129, 128>>, <<0, 128>>, <<128, 0>>, <<0, 0>>}

OrdVals == (-(MaxLen + 1))..MaxLen

\* the permutations of 0..k-1 as lists
Perms(k) == {p \in [1..k -> 0..(k - 1)] : \A x, y \in 1..k : x # y => p[x] # p[y]}

\* the identity ordering [0, 1, ..., k-1] and its reverse
Identity(k) == [j \in 1..k |-> j - 1]

Reversed(k) == [j \in 1..k |-> k - j]

\* the orderings a caller passes: every permutation of up to MaxLen tiles, and
\* the identity and its reverse with one entry replaced by any value (a
\* duplicate, a negative value, a value past the end); their lengths cover
\* every tile count or miss it
Orderings ==
    {<<>>} \cup
    UNION {Perms(k) \cup {[p EXCEPT ![j] = v] :
                            p \in {Identity(k), Reversed(k)}, j \in 1..k, v \in OrdVals} :
           k \in 1..MaxLen}

\* ordering A applied first, then B to A's output: entry i names A[B[i]]
ComposeAB(A, B) == [j \in 1..Len(B) |-> A[B[j] + 1]]

\* the entry-wise composite B[A[i]]
ComposeBA(A, B) == [j \in 1..Len(A) |-> B[A[j] + 1]]

RearrangeCall(path, tile, ord, out) ==
    [op |-> "rearrange_tiles", image_path |-> path, image_size |-> <<0, 0>>,
     tile_size |-> tile, ordering |-> ord, out_path |-> out]

ValidInputCall(size, tile, ord) ==
    [op |-> "valid_input", image_path |-> "in", image_size |-> size,
     tile_size |-> tile, ordering |-> ord, out_path |-> "out"]

\* a caller checking composition on an image of n one-pixel tiles: A, then B on
\* A's output, then each composite ordering on the original
ComposeScripts(size) ==
    LET n == size[1] * size[2] IN
    IF n > MaxLen THEN {}
    ELSE {<<RearrangeCall("in", <<1, 1>>, A, "a"), RearrangeCall("a", <<1, 1>>, B, "ab"),
            RearrangeCall("in", <<1, 1>>, ComposeAB(A, B), "c"),
            RearrangeCall("in", <<1, 1>>, ComposeBA(A, B), "d")>> :
             A \in Perms(n), B \in Perms(n)}

VARIABLES
    files,        \* the file system: path -> image (NoImage: no such file)
    todo,         \* the calls the caller still makes, in order
    log,          \* the rearrange_tiles calls that returned, in order
    pc,           \* position in the running call
    op,           \* the operation called
    image_path, image_size, tile_size, ordering, out_path,   \* its arguments
    img,          \* the opened source image
    closed,       \* the with-block of line 42 was left
    tiles,        \* the list tiles of line 56
    output,       \* the canvas of line 67
    r, c,         \* the loop variables
    R, C,         \* lines 49-50
    result,       \* what valid_input returned ("unset" before, or if it raised)
    err,          \* the exception the call ended with
    msg,          \* its message
    before,       \* the file system when the call started
    writes        \* number of files written by the call

args == <<op, image_path, tile_size, ordering, out_path>>
locals == <<img, closed, tiles, output, r, c, R, C, result, err, msg>>
vars == <<files, todo, log, pc, args, image_size, locals, before, writes>>

InitState(image, script) ==
    /\ files = [p \in Paths |-> IF p = "in" THEN image ELSE NoImage]
    /\ todo = script
    /\ log = <<>>
    /\ pc = "idle"
    /\ op = "none" /\ image_path = "in" /\ image_size = <<0, 0>>
    /\ tile_size = <<1, 1>> /\ ordering = <<>> /\ out_path = "out"
    /\ img = NoImage /\ closed = FALSE /\ tiles = <<>> /\ output = NoImage
    /\ r = 0 /\ c = 0 /\ R = 0 /\ C = 0
    /\ result = "unset" /\ err = "none" /\ msg = ""
    /\ before = files /\ writes = 0

\* one rearrange_tiles call on any image, tile size and ordering
InitRearrange ==
    \E size \in ImageSizes, t \in TileSizes, o \in Orderings :
        InitState(SourceImage(size), <<RearrangeCall("in", t, o, "out")>>)

\* one valid_input call on the documented example sizes
InitValidInput ==
    \E size \in ExampleImageSizes, t \in ExampleTileSizes, o \in Orderings :
        InitState(SourceImage(<<1, 1>>), <<ValidInputCall(size, t, o)>>)

\* the composition check
InitCompose ==
    \E size \in ImageSizes :
        \E s \in ComposeScripts(size) : InitState(SourceImage(size), s)

Init == InitRearrange \/ InitValidInput \/ InitCompose

\* the caller makes its next call
Call ==
    /\ pc \in {"idle", "returned"}
    /\ todo # <<>>
    /\ op' = Head(todo).op
    /\ image_path' = Head(todo).image_path
    /\ image_size' = Head(todo).image_size
    /\ tile_size' = Head(todo).tile_size
    /\ ordering' = Head(todo).ordering
    /\ out_path' = Head(todo).out_path
    /\ todo' = Tail(todo)
    /\ pc' = "entered"
    /\ img' = NoImage /\ closed' = FALSE /\ tiles' = <<>> /\ output' = NoImage
    /\ r' = 0 /\ c' = 0 /\ R' = 0 /\ C' = 0
    /\ result' = "unset" /\ err' = "none" /\ msg' = ""
    /\ before' = files /\ writes' = 0
    /\ UNCHANGED <<files, log>>

\* valid_input called directly: lines 21-28
CallValidInput ==
    /\ pc = "entered" /\ op = "valid_input"
    /\ LET v == ValidInput(image_size, tile_size, ordering) IN
        IF v = "ZeroDivisionError"
        THEN /\ err' = v /\ pc' = "raised" /\ UNCHANGED result
        ELSE /\ result' = v /\ pc' = "returned" /\ UNCHANGED err
    /\ UNCHANGED <<files, todo, log, args, image_size, img, closed, tiles, output,
                   r, c, R, C, msg, before, writes>>

\* line 42: Image.open(image_path)
Open ==
    /\ pc = "entered" /\ op = "rearrange_tiles"
    /\ files[image_path] # NoImage
    /\ img' = files[image_path]
    /\ pc' = "validate"
    /\ UNCHANGED <<files, todo, log, args, image_size, closed, tiles, output,
                   r, c, R, C, result, err, msg, before, writes>>

ValidateNoRaise ==
    /\ pc = "validate"
    /\ image_size' = img.size
    /\ LET v == ValidInput(img.size, tile_size, ordering) IN
        CASE v = "ZeroDivisionError" ->
                /\ err' = v /\ pc' = "raised" /\ closed' = TRUE
                /\ UNCHANGED <<result, msg, R, C>>
          [] OTHER ->
                /\ result' = v
                /\ R' = PyFloorDiv(img.size[2], tile_size[2])
                /\ C' = PyFloorDiv(img.size[1], tile_size[1])
                /\ pc' = "crop"
                /\ UNCHANGED <<err, msg, closed>>
    /\ UNCHANGED <<files, todo, log, args, img, tiles, output, r, c, before, writes>>

\* lines 43-50: the validation, its ValueError, and the grid R x C
Validate ==
    /\ pc = "validate"
    /\ image_size' = img.size
    /\ LET v == ValidInput(img.size, tile_size, ordering) IN
        CASE v = "ZeroDivisionError" ->
                /\ err' = v /\ pc' = "raised" /\ closed' = TRUE
                /\ UNCHANGED <<result, msg, R, C>>
          [] v = "False" ->
                /\ result' = v
                /\ err' = "ValueError" /\ msg' = ValidationMessage
                /\ pc' = "raised" /\ closed' = TRUE
                /\ UNCHANGED <<R, C>>
          [] OTHER ->
                /\ result' = v
                /\ R' = PyFloorDiv(img.size[2], tile_size[2])
                /\ C' = PyFloorDiv(img.size[1], tile_size[1])
                /\ pc' = "crop"
                /\ UNCHANGED <<err, msg, closed>>
    /\ UNCHANGED <<files, todo, log, args, img, tiles, output, r, c, before, writes>>

\* lines 58-65: one iteration of the cropping loops
CropTile ==
    /\ pc = "crop" /\ r < R /\ c < C
    /\ LET box == CropBox(r, c, tile_size[1], tile_size[2]) IN
        tiles' = Append(tiles, ImageCrop(img, box[1], box[2], box[3], box[4]))
    /\ r' = NextCell(r, c, C)[1]
    /\ c' = NextCell(r, c, C)[2]
    /\ UNCHANGED <<files, todo, log, pc, args, image_size, img, closed, output,
                   R, C, result, err, msg, before, writes>>

\* line 67, once the cropping loops are over
NewCanvas ==
    /\ pc = "crop" /\ ~(r < R /\ c < C)
    /\ output' = ImageNew(img.mode, img.size)
    /\ pc' = "paste" /\ r' = 0 /\ c' = 0
    /\ UNCHANGED <<files, todo, log, args, image_size, img, closed, tiles,
                   R, C, result, err, msg, before, writes>>

\* lines 70-74: one iteration of the stitching loops
PasteTile ==
    /\ pc = "paste" /\ r < R /\ c < C
    /\ LET i == TileIndex(r, c, R, C)
           at == PasteOffset(r, c, tile_size[1], tile_size[2])
       IN
        IF i < Len(tiles)
        THEN IF PyIndexOk(ordering, i)
                /\ PyIndexOk(tiles, ordering[PyIndexPos(ordering, i)])
             THEN /\ output' = ImagePaste(output,
                                  tiles[PyIndexPos(tiles, ordering[PyIndexPos(ordering, i)])],
                                  at[1], at[2])
                  /\ r' = NextCell(r, c, C)[1]
                  /\ c' = NextCell(r, c, C)[2]
                  /\ UNCHANGED <<pc, err, closed>>
             ELSE /\ err' = "IndexError" /\ pc' = "raised" /\ closed' = TRUE
                  /\ UNCHANGED <<output, r, c>>
        ELSE /\ r' = NextCell(r, c, C)[1]
             /\ c' = NextCell(r, c, C)[2]
             /\ UNCHANGED <<output, pc, err, closed>>
    /\ UNCHANGED <<files, todo, log, args, image_size, img, tiles, R, C, result,
                   msg, before, writes>>

\* line 76, once the stitching loops are over; the with-block ends
Save ==
    /\ pc = "paste" /\ ~(r < R /\ c < C)
    /\ files' = [files EXCEPT ![out_path] = output]
    /\ writes' = writes + 1
    /\ closed' = TRUE
    /\ pc' = "returned"
    /\ log' = Append(log, [image_path |-> image_path, tile_size |-> tile_size,
                           ordering |-> ordering, out_path |-> out_path])
    /\ UNCHANGED <<todo, args, image_size, img, tiles, output, r, c, R, C,
                   result, err, msg, before>>

Next == Call \/ CallValidInput \/ Open \/ Validate \/ CropTile \/ NewCanvas
        \/ PasteTile \/ Save

Spec == Init /\ [][Next]_vars

\* ================================================================ claims
\* d divides n, stated without the modulo operator
Divides(d, n) == \E k \in (-n)..n : n = k * d

\* the integer quotient floor(a / b), stated by its defining inequalities
FloorQuot(a, b) ==
    CHOOSE q \in (-(a + 1))..(a + 1) :
        IF b > 0 THEN q * b <= a /\ a < (q + 1) * b
                 ELSE q * b >= a /\ a > (q + 1) * b

\* the number of grid cells of an image of the given size under a tile size
GridCells(size, tile) == FloorQuot(size[2], tile[2]) * FloorQuot(size[1], tile[1])

Distinct(xs) == \A x, y \in 1..Len(xs) : x # y => xs[x] # xs[y]

\* the pixels of the w x h region of an image at (left, top)
Region(im, left, top, w, h) ==
    [p \in Points(<<w, h>>) |-> im.px[<<left + p[1], top + p[2]>>]]

\* the call ended, by returning or by raising
Ended == pc \in {"returned", "raised"}

\* the running rearrange_tiles call was given a positive tile size that divides
\* the source image evenly
EvenPositiveTiling ==
    /\ op = "rearrange_tiles"
    /\ tile_size[1] > 0 /\ tile_size[2] > 0
    /\ Divides(tile_size[1], before[image_path].size[1])
    /\ Divides(tile_size[2], before[image_path].size[2])

\* C1: valid_input returns True only if the tile width divides the image width
\* and the tile height divides the image height (tile components non-zero); tile
\* widths 127 and 129 against width 256, and tile 30x30 against 100x100, are
\* rejected whatever the ordering.
C1_Divisibility ==
    /\ result = "True" =>
          /\ Divides(tile_size[1], image_size[1])
          /\ Divides(tile_size[2], image_size[2])
    /\ (result # "unset" /\ image_size[1] = 256 /\ tile_size[1] \in {127, 129})
          => result = "False"
    /\ (result # "unset" /\ image_size = <<100, 100>> /\ tile_size = <<30, 30>>)
          => result = "False"

\* a tile size whose width divides the image and whose height does not is rejected
C1_Witness ==
    /\ op = "valid_input" /\ pc = "returned" /\ result = "False"
    /\ image_size = <<256, 256>> /\ tile_size = <<128, 127>>
    /\ ordering = <<0, 1, 2, 3>>

\* C2: valid_input returns True only if the ordering's length is R*C and its
\* elements are pairwise distinct; on image 256x256 with tile 128x128 the
\* ordering [0,1,2,2] is rejected and [0,1,2,3] is accepted.
C2_PermutationCheck ==
    /\ result = "True" =>
          /\ Len(ordering) = GridCells(image_size, tile_size)
          /\ Distinct(ordering)
    /\ (result # "unset" /\ image_size = <<256, 256>> /\ tile_size = <<128, 128>>
        /\ ordering = <<0, 1, 2, 2>>) => result = "False"
    /\ (result # "unset" /\ image_size = <<256, 256>> /\ tile_size = <<128, 128>>
        /\ ordering = <<0, 1, 2, 3>>) => result = "True"

\* the ordering with a duplicate, of the right length, is rejected
C2_Witness ==
    /\ op = "valid_input" /\ pc = "returned" /\ result = "False"
    /\ image_size = <<256, 256>> /\ tile_size = <<128, 128>>
    /\ ordering = <<0, 1, 2, 2>>

\* C3: whenever valid_input returns True, the ordering is a permutation of the
\* tile indices 0..tileCount-1 (each source tile used exactly once).
C3_Bijection ==
    result = "True" =>
        /\ Len(ordering) = GridCells(image_size, tile_size)
        /\ {ordering[j] : j \in 1..Len(ordering)} = 0..(Len(ordering) - 1)

\* C4 as stated: a rejected (tile size, ordering) pair makes rearrange_tiles
\* raise ValidationError with the fixed message, before any tile is cropped or
\* any canvas is created, and no file is created or modified.
C4_AsClaimed ==
    (op = "rearrange_tiles" /\ result = "False") =>
        /\ pc = "raised" /\ err = "ValidationError"
        /\ msg = "The tile size or ordering are not valid for the given image"
        /\ tiles = <<>> /\ output = NoImage
        /\ files = before /\ writes = 0

\* C4 amended: the exception raised is ValueError; the rest as stated.
C4_FailureWithoutSideEffect ==
    (op = "rearrange_tiles" /\ result = "False") =>
        /\ pc = "raised" /\ err = "ValueError"
        /\ msg = "The tile size or ordering are not valid for the given image"
        /\ tiles = <<>> /\ output = NoImage
        /\ files = before /\ writes = 0

\* an ordering of the wrong length on an evenly tiled image was rejected
C4_Witness ==
    /\ op = "rearrange_tiles" /\ pc = "raised" /\ result = "False"
    /\ EvenPositiveTiling /\ Len(ordering) = 3
    /\ before[image_path].size = <<2, 2>> /\ tile_size = <<1, 1>>

\* C5: after a successful rearrange_tiles (on a positive tile size) every
\* destination grid position i = r*C + c holds exactly the pixels of the source
\* tile whose row-major index is ordering[i].
C5_Placement ==
    (EvenPositiveTiling /\ pc = "returned") =>
        \A rr \in 0..(R - 1), cc \in 0..(C - 1) :
            LET k == ordering[rr * C + cc + 1] IN
            /\ k \in 0..(R * C - 1)
            /\ Region(files[out_path], cc * tile_size[1], rr * tile_size[2],
                      tile_size[1], tile_size[2])
               = Region(before[image_path], (k % C) * tile_size[1],
                        (k \div C) * tile_size[2], tile_size[1], tile_size[2])

\* C6: with a positive tile size that divides the image evenly and the identity
\* ordering, rearrange_tiles succeeds and the output equals the source image
\* (size, mode and every pixel).
C6_RoundTripIdentity ==
    (Ended /\ EvenPositiveTiling
     /\ ordering = Identity(GridCells(before[image_path].size, tile_size))) =>
        /\ pc = "returned"
        /\ files[out_path] = before[image_path]

\* the identity ordering was applied to a 2 x 2 grid of 2 x 1 tiles
C6_Witness ==
    /\ op = "rearrange_tiles" /\ pc = "returned"
    /\ ordering = <<0, 1, 2, 3>> /\ tile_size = <<2, 1>> /\ R = 2 /\ C = 2
    /\ files[out_path] = before[image_path]

\* the calls x, y, z of the log are: A on an image, B on A's output, and the
\* ordering comp on the first image, all with one tile size
Composed(x, y, z, comp(_, _)) ==
    /\ x < y
    /\ log[y].image_path = log[x].out_path
    /\ log[z].image_path = log[x].image_path
    /\ log[y].tile_size = log[x].tile_size
    /\ log[z].tile_size = log[x].tile_size
    /\ log[z].ordering = comp(log[x].ordering, log[y].ordering)

\* C7 as stated: A then B gives the image of the single ordering whose i-th
\* entry is B[A[i]].
C7_AsClaimed ==
    (pc = "returned" /\ todo = <<>>) =>
        \A x, y, z \in 1..Len(log) :
            Composed(x, y, z, ComposeBA) =>
                files[log[z].out_path] = files[log[y].out_path]

\* C7 amended: A then B gives the image of the single ordering whose i-th
\* entry is A[B[i]].
C7_Composition ==
    (pc = "returned" /\ todo = <<>>) =>
        \A x, y, z \in 1..Len(log) :
            Composed(x, y, z, ComposeAB) =>
                files[log[z].out_path] = files[log[y].out_path]

\* two orderings that do not commute were composed on a 2 x 2 grid
C7_Witness ==
    /\ pc = "returned" /\ todo = <<>> /\ Len(log) = 4
    /\ R = 2 /\ C = 2
    /\ Composed(1, 2, 3, ComposeAB)
    /\ ComposeAB(log[1].ordering, log[2].ordering)
         # ComposeBA(log[1].ordering, log[2].ordering)
    /\ files["c"] = files["ab"]

\* the running call's ordering has the length of the grid and distinct values
RightLengthDistinct ==
    /\ Len(ordering) = GridCells(before[image_path].size, tile_size)
    /\ Distinct(ordering)

C10_TilePreservation ==
    (EvenPositiveTiling /\ pc = "returned") =>
        /\ \A p \in DOMAIN files[out_path].px : files[out_path].px[p] # 0
        /\ \A k \in 0..(R * C - 1) :
              Cardinality(
                {i \in 0..(R * C - 1) :
                    Region(files[out_path], (i % C) * tile_size[1],
                           (i \div C) * tile_size[2], tile_size[1], tile_size[2])
                    = Region(before[image_path], (k % C) * tile_size[1],
                             (k \div C) * tile_size[2], tile_size[1], tile_size[2])})
              = 1

====
